---- MODULE Spec2Model ----
(***************************************************************************)
(* Ledger and balance reconciliation of the collateral lending backend.    *)
(*                                                                         *)
(* The database is the state: the accounts table, the transactions table   *)
(* and one collateral row.  Every call of AccountDB / TransactionDB /      *)
(* CollateralDB opens its own connection and commits, so each such call is *)
(* one atomic step and a request handler is a sequence of steps that other *)
(* handlers interleave with.  Amounts are whole units; the float()/Decimal *)
(* conversions of the source are exact on them.  An account is the row the *)
(* SELECT of AccountDB.get_account_by_id returns, loan_balance and         *)
(* investment_balance included.                                            *)
(***************************************************************************)
EXTENDS Integers, Sequences, FiniteSets, TLC

\* ---------------------------------------------------------------- bounds
MaxAmount == 2      \* request amounts are drawn from 1..MaxAmount
MaxCalls == 3       \* number of direct Balance Service calls in one behaviour
MaxSvcTx == 1       \* number of rows a direct caller creates in one behaviour
InitLoan == 1       \* loan_balance of the ordinary user's account at start
InitInv == 1        \* investment_balance of the ordinary user's account at start
OrgFund == 2        \* investment_balance of the organization account at start
ColLimit == 1       \* loan_limit of the collateral, fully drawn at start
MaxDays == 1        \* a due date is moved by at most this many days
MaxBalance == 2     \* balances the Balance Calculator is tried on: 0..MaxBalance

\* ------------------------------------------------------------- constants
NULL == 0 - 1       \* SQL NULL of a balance snapshot column
NoRef == 0          \* reference_number not given
DueDate == 0        \* the day the collateral's loan falls due, as first valued

ORG == "organization"
OrgAccount == "org_account_001"
Accounts == {OrgAccount, "user_account_001"}
Users == {ORG, "user_001"}
Procs == {"r1", "r2"}

DEPOSIT == "deposit"
WITHDRAWAL == "withdrawal"
INTEREST == "interest"
LOAN_DISBURSEMENT == "loan_disbursement"
PAYMENT == "payment"
FEE == "fee"
TransactionType == {DEPOSIT, WITHDRAWAL, INTEREST, LOAN_DISBURSEMENT, PAYMENT, FEE}
TransactionStatus == {"pending", "completed", "failed", "cancelled", "reversed"}
MirroredTypes == {DEPOSIT, WITHDRAWAL, LOAN_DISBURSEMENT, PAYMENT, FEE}
Amounts == 1..MaxAmount

CollateralStatus == {"pending", "approved", "rejected", "released", "defaulted"}
CollateralOwner == "user_001"
LoanRef == 0 - 2    \* "LOAN-" and the collateral id: names no transaction
DueDates == DueDate..(DueDate + MaxDays)

\* the users a create_account request may name: one with an account, one without
AccountUsers == {"user_001", "user_002"}
BalanceFields == {"loan_balance", "investment_balance"}
BalanceInputs == (0 - MaxAmount)..MaxAmount

\* AccountDB.get_account_by_user_id on the accounts that exist at start
AccountOfUser(u) == IF u = ORG THEN OrgAccount ELSE "user_account_001"

VARIABLES accounts, transactions, collateral, pc, req, nreq, last, new_accounts

vars == <<accounts, transactions, collateral, pc, req, nreq, last, new_accounts>>

\* ------------------------------------------------------ pure functions

\* BalanceService.calculate_balances_for_transaction on the account row read
CalcNoWithdrawalCheck(acct, ttype, amount, user_id) ==
    LET lb == acct.loan_balance
        ib == acct.investment_balance
        orgz(x) == IF user_id = ORG THEN 0 ELSE x
        res(l, i) == [ok |-> TRUE, lb_b |-> lb, lb_a |-> l, ib_b |-> ib, ib_a |-> i]
        err == [ok |-> FALSE, lb_b |-> lb, lb_a |-> lb, ib_b |-> ib, ib_a |-> ib]
    IN CASE ttype = DEPOSIT -> res(orgz(lb), ib + amount)
         [] ttype = WITHDRAWAL -> res(orgz(lb), ib - amount)
         [] ttype = LOAN_DISBURSEMENT -> IF user_id = ORG THEN err ELSE res(lb + amount, ib)
         [] ttype = PAYMENT ->
              IF user_id = ORG
              THEN (IF ib < amount THEN err ELSE res(0, ib - amount))
              ELSE (IF lb < amount THEN err ELSE res(lb - amount, ib))
         [] ttype = FEE -> IF ib < amount THEN err ELSE res(orgz(lb), ib - amount)
         [] ttype = INTEREST -> res(orgz(lb), ib + amount)

\* a calculator that takes a fee from the loan balance
CalcFeeFromLoan(acct, ttype, amount, user_id) ==
    LET lb == acct.loan_balance
        ib == acct.investment_balance
        orgz(x) == IF user_id = ORG THEN 0 ELSE x
        res(l, i) == [ok |-> TRUE, lb_b |-> lb, lb_a |-> l, ib_b |-> ib, ib_a |-> i]
        err == [ok |-> FALSE, lb_b |-> lb, lb_a |-> lb, ib_b |-> ib, ib_a |-> ib]
    IN CASE ttype = DEPOSIT -> res(orgz(lb), ib + amount)
         [] ttype = WITHDRAWAL -> IF ib < amount THEN err ELSE res(orgz(lb), ib - amount)
         [] ttype = LOAN_DISBURSEMENT -> IF user_id = ORG THEN err ELSE res(lb + amount, ib)
         [] ttype = PAYMENT ->
              IF user_id = ORG
              THEN (IF ib < amount THEN err ELSE res(0, ib - amount))
              ELSE (IF lb < amount THEN err ELSE res(lb - amount, ib))
         [] ttype = FEE -> IF lb < amount THEN err ELSE res(lb - amount, ib)
         [] ttype = INTEREST -> res(orgz(lb), ib + amount)

CalcBalances(acct, ttype, amount, user_id) ==
    LET lb == acct.loan_balance
        ib == acct.investment_balance
        orgz(x) == IF user_id = ORG THEN 0 ELSE x
        res(l, i) == [ok |-> TRUE, lb_b |-> lb, lb_a |-> l, ib_b |-> ib, ib_a |-> i]
        err == [ok |-> FALSE, lb_b |-> lb, lb_a |-> lb, ib_b |-> ib, ib_a |-> ib]
    IN CASE ttype = DEPOSIT -> res(orgz(lb), ib + amount)
         [] ttype = WITHDRAWAL -> IF ib < amount THEN err ELSE res(orgz(lb), ib - amount)
         [] ttype = LOAN_DISBURSEMENT -> IF user_id = ORG THEN err ELSE res(lb + amount, ib)
         [] ttype = PAYMENT ->
              IF user_id = ORG
              THEN (IF ib < amount THEN err ELSE res(0, ib - amount))
              ELSE (IF lb < amount THEN err ELSE res(lb - amount, ib))
         [] ttype = FEE -> IF ib < amount THEN err ELSE res(orgz(lb), ib - amount)
         [] ttype = INTEREST -> res(orgz(lb), ib + amount)

\* an opposite-type mapping that gives every type itself
OppositeSame(ttype) == ttype

\* BalanceService._get_opposite_transaction_type
OppositeType(ttype) ==
    CASE ttype = DEPOSIT -> DEPOSIT
      [] ttype = WITHDRAWAL -> WITHDRAWAL
      [] ttype = LOAN_DISBURSEMENT -> WITHDRAWAL
      [] ttype = PAYMENT -> DEPOSIT
      [] ttype = FEE -> INTEREST
      [] ttype = INTEREST -> FEE
      [] OTHER -> ttype

\* the balances revert_transaction_balances writes back
RevertByDelta(acct, t) ==
    [loan_balance |-> acct.loan_balance - (t.loan_balance_after - t.loan_balance_before),
     investment_balance |->
        acct.investment_balance - (t.invested_balance_after - t.invested_balance_before)]

RevertedBalances(acct, t) ==
    [loan_balance |-> t.loan_balance_before,
     investment_balance |-> t.invested_balance_before]

\* ------------------------------------------------------- table operations

\* TransactionDB.create_transaction: a new row, status pending, no snapshot
NewTransaction(account_id, user_id, ttype, amount, ref) ==
    [account_id |-> account_id, user_id |-> user_id, transaction_type |-> ttype,
     amount |-> amount, status |-> "pending", reference_number |-> ref,
     loan_balance_before |-> NULL, loan_balance_after |-> NULL,
     invested_balance_before |-> NULL, invested_balance_after |-> NULL]

\* TransactionDB.mark_transaction_completed
SetCompleted(txs, t) == [txs EXCEPT ![t].status = "completed"]

\* mark_transaction_failed whose UPDATE is never committed
SetFailedUncommitted(txs, t) == txs

\* TransactionDB.mark_transaction_failed
SetFailed(txs, t) == [txs EXCEPT ![t].status = "failed"]

\* TransactionDB.update_transaction_balances with four non-null arguments
SetSnapshot(txs, t, lb_b, lb_a, ib_b, ib_a) ==
    [txs EXCEPT ![t].loan_balance_before = lb_b, ![t].loan_balance_after = lb_a,
                ![t].invested_balance_before = ib_b, ![t].invested_balance_after = ib_a]

\* an UPDATE of the accounts table without its WHERE id = $1
SetBalancesEveryRow(accts, a, lb, ib) ==
    [b \in DOMAIN accts |-> [loan_balance |-> lb, investment_balance |-> ib]]

\* AccountDB.update_account_balances with both arguments non-null
SetBalances(accts, a, lb, ib) ==
    [accts EXCEPT ![a] = [loan_balance |-> lb, investment_balance |-> ib]]

IdleReq ==
    [route |-> "none", account_id |-> "none", user_id |-> "none", amount |-> 0,
     tx |-> 0, cur |-> 0, depth |-> 0,
     lb_b |-> 0, lb_a |-> 0, ib_b |-> 0, ib_a |-> 0,
     col_loan |-> 0, gw |-> "none", outcome |-> "none", args |-> {}]

NoCall == [op |-> "none", tx |-> 0]

TxIds == 1..Len(transactions)

\* ------------------------------------------------------------------ Init
\* the accounts table when the first request arrives: the organization holds
\* its fund and no loan, the user has borrowed and invested before
InitialAccounts ==
    [a \in Accounts |->
        IF a = OrgAccount
        THEN [loan_balance |-> 0, investment_balance |-> OrgFund]
        ELSE [loan_balance |-> InitLoan, investment_balance |-> InitInv]]

Init ==
    /\ accounts = InitialAccounts
    /\ transactions = <<>>
    /\ collateral = [status |-> "approved", loan_amount |-> ColLimit,
                     loan_limit |-> ColLimit, due_date |-> DueDate]
    /\ pc = [p \in Procs |-> "idle"]
    /\ req = [p \in Procs |-> IdleReq]
    /\ nreq = 0
    /\ last = NoCall
    /\ new_accounts = <<>>

\* --------------------------------------------------------- route entries

\* the workers are interchangeable, so r2 takes a request only once r1 has one
MayStart(p) == pc[p] = "idle" /\ (p = "r2" => pc["r1"] # "idle")

\* validation, TransactionCreate and TransactionDB.create_transaction of a route
StartRequest(p, route, ttype, a, u, amt) ==
    /\ MayStart(p)
    /\ transactions' = Append(transactions, NewTransaction(a, u, ttype, amt, NoRef))
    /\ req' = [req EXCEPT ![p] = [IdleReq EXCEPT !.route = route, !.account_id = a,
                                    !.user_id = u, !.amount = amt,
                                    !.tx = Len(transactions) + 1,
                                    !.cur = Len(transactions) + 1, !.depth = 1,
                                    !.col_loan = collateral.loan_amount]]
    /\ UNCHANGED <<accounts, collateral, nreq, last, new_accounts>>

\* a request turned down before any row is written
RejectRequest(p, route, a, u, amt, why) ==
    /\ MayStart(p)
    /\ req' = [req EXCEPT ![p] = [IdleReq EXCEPT !.route = route, !.account_id = a,
                                    !.user_id = u, !.amount = amt, !.outcome = why]]
    /\ pc' = [pc EXCEPT ![p] = "done"]
    /\ UNCHANGED <<accounts, transactions, collateral, nreq, last, new_accounts>>

deposit_money(p) ==
    \E a \in Accounts, u \in Users, amt \in Amounts :
        /\ StartRequest(p, "deposit", DEPOSIT, a, u, amt)
        /\ pc' = [pc EXCEPT ![p] = "calc"]

withdraw_money(p) ==
    \E a \in Accounts, u \in Users, amt \in Amounts :
        /\ StartRequest(p, "withdrawal", WITHDRAWAL, a, u, amt)
        /\ pc' = [pc EXCEPT ![p] = "calc"]

pay_loan(p) ==
    \E a \in Accounts, u \in Users, amt \in Amounts :
        /\ StartRequest(p, "payment", PAYMENT, a, u, amt)
        /\ pc' = [pc EXCEPT ![p] = "calc"]

create_loan(p) ==
    \E a \in Accounts, u \in Users, amt \in Amounts :
        IF amt > collateral.loan_limit
        THEN RejectRequest(p, "create_loan", a, u, amt, "limit_exceeded")
        ELSE IF accounts[OrgAccount].investment_balance < amt
        THEN RejectRequest(p, "create_loan", a, u, amt, "org_insufficient")
        ELSE /\ StartRequest(p, "create_loan", LOAN_DISBURSEMENT, a, u, amt)
             /\ pc' = [pc EXCEPT ![p] = "calc"]

\* extend_loan without the check of the collateral's status
extend_loan_unchecked(p) ==
    \E a \in Accounts, u \in Users, fee \in Amounts :
        /\ StartRequest(p, "extend_loan", FEE, a, u, fee)
        /\ pc' = [pc EXCEPT ![p] = "x_read"]

extend_loan(p) ==
    \E a \in Accounts, u \in Users, fee \in Amounts :
        IF collateral.status # "approved"
        THEN RejectRequest(p, "extend_loan", a, u, fee, "not_approved")
        ELSE /\ StartRequest(p, "extend_loan", FEE, a, u, fee)
             /\ pc' = [pc EXCEPT ![p] = "x_read"]

\* ---------------------------------- BalanceService.process_transaction_balances

\* where control goes when process_transaction_balances returns to its caller
AfterProcess(r) == IF r.route = "svc_process" THEN "done" ELSE "gateway"

\* get_transaction_by_id and calculate_balances_for_transaction
Calculate(p) ==
    /\ pc[p] = "calc"
    /\ LET r == req[p]
           t == transactions[r.cur]
           c == CalcBalances(accounts[t.account_id], t.transaction_type, t.amount, t.user_id)
       IN IF c.ok
          THEN /\ req' = [req EXCEPT ![p].lb_b = c.lb_b, ![p].lb_a = c.lb_a,
                                      ![p].ib_b = c.ib_b, ![p].ib_a = c.ib_a]
               /\ pc' = [pc EXCEPT ![p] = "snap"]
          ELSE /\ req' = [req EXCEPT ![p].outcome = "rejected"]
               /\ pc' = [pc EXCEPT ![p] =
                            IF r.depth > 1 THEN "mirror_failed"
                            ELSE IF r.route = "svc_process" THEN "done"
                            ELSE "route_failed"]
    /\ UNCHANGED <<accounts, transactions, collateral, nreq, last, new_accounts>>

\* TransactionDB.update_transaction_balances
RecordBalances(p) ==
    /\ pc[p] = "snap"
    /\ transactions' = SetSnapshot(transactions, req[p].cur,
                                   req[p].lb_b, req[p].lb_a, req[p].ib_b, req[p].ib_a)
    /\ pc' = [pc EXCEPT ![p] = "acct"]
    /\ UNCHANGED <<accounts, collateral, req, nreq, last, new_accounts>>

\* BalanceService.update_account_balances
UpdateAccount(p) ==
    /\ pc[p] = "acct"
    /\ accounts' = SetBalances(accounts, transactions[req[p].cur].account_id,
                               req[p].lb_a, req[p].ib_a)
    /\ pc' = [pc EXCEPT ![p] = "complete"]
    /\ UNCHANGED <<transactions, collateral, req, nreq, last, new_accounts>>

\* a mirroring condition that does not look at the owner
NeedsMirrorAnyOwner(t) == t.transaction_type \in MirroredTypes

\* the condition under which the opposite organization transaction is made
NeedsMirror(t) == t.transaction_type \in MirroredTypes /\ t.user_id # ORG

\* TransactionDB.mark_transaction_completed, then the mirroring decision
MarkCompleted(p) ==
    /\ pc[p] = "complete"
    /\ transactions' = SetCompleted(transactions, req[p].cur)
    /\ pc' = [pc EXCEPT ![p] =
                 IF NeedsMirror(transactions[req[p].cur])
                 THEN "mirror_create" ELSE AfterProcess(req[p])]
    /\ UNCHANGED <<accounts, collateral, req, nreq, last, new_accounts>>

\* BalanceService.create_opposite_organization_transaction up to create_transaction
CreateOpposite(p) ==
    /\ pc[p] = "mirror_create"
    /\ LET t == transactions[req[p].cur]
       IN transactions' = Append(transactions,
              NewTransaction(OrgAccount, ORG, OppositeType(t.transaction_type),
                             t.amount, req[p].cur))
    /\ req' = [req EXCEPT ![p].cur = Len(transactions) + 1, ![p].depth = @ + 1]
    /\ pc' = [pc EXCEPT ![p] = "calc"]
    /\ UNCHANGED <<accounts, collateral, nreq, last, new_accounts>>

\* the except ValueError of create_opposite_organization_transaction; the
\* caller logs the re-raised error and returns normally
MirrorFailed(p) ==
    /\ pc[p] = "mirror_failed"
    /\ transactions' = SetFailed(transactions, req[p].cur)
    /\ req' = [req EXCEPT ![p].outcome = "none"]
    /\ pc' = [pc EXCEPT ![p] = AfterProcess(req[p])]
    /\ UNCHANGED <<accounts, collateral, nreq, last, new_accounts>>

\* the except ValueError of a route: mark_transaction_failed, HTTP 400
RouteMarkFailed(p) ==
    /\ pc[p] = "route_failed"
    /\ transactions' = SetFailed(transactions, req[p].tx)
    /\ pc' = [pc EXCEPT ![p] = "done"]
    /\ UNCHANGED <<accounts, collateral, req, nreq, last, new_accounts>>

\* ------------------------------------------------- Settlement Gateway call

\* crossmint.transfer: any HTTP status but 200, or an exception inside it, is
\* returned as {"error": True}; evaluating the arguments may itself raise,
\* which the route's except Exception turns into HTTP 500.  Only
\* deposit_money looks at the result.
Gateway(p) ==
    /\ pc[p] = "gateway"
    /\ \E result \in {"ok", "error", "raise"} :
          IF req[p].route = "deposit" /\ result = "error"
          THEN /\ req' = [req EXCEPT ![p].gw = result]
               /\ pc' = [pc EXCEPT ![p] = "revert"]
          ELSE /\ req' = [req EXCEPT ![p].gw = IF result = "error" THEN "error" ELSE "ok",
                                      ![p].outcome = "ok"]
               /\ pc' = [pc EXCEPT ![p] = "done"]
    /\ UNCHANGED <<accounts, transactions, collateral, nreq, last, new_accounts>>

\* ----------------------------------- BalanceService.revert_transaction_balances

\* revert_transaction_balances without the check for a recorded snapshot
RevertUnchecked(p) ==
    /\ pc[p] = "revert"
    /\ LET t == transactions[req[p].tx]
       IN accounts' = [accounts EXCEPT ![t.account_id] =
                          RevertedBalances(accounts[t.account_id], t)]
    /\ pc' = [pc EXCEPT ![p] = "revert_mark"]
    /\ UNCHANGED <<transactions, collateral, req, nreq, last, new_accounts>>

\* get_transaction_by_id, the snapshot check and update_account_balances
Revert(p) ==
    /\ pc[p] = "revert"
    /\ LET t == transactions[req[p].tx]
       IN IF t.loan_balance_before = NULL \/ t.invested_balance_before = NULL
          THEN /\ req' = [req EXCEPT ![p].outcome = "no_snapshot"]
               /\ pc' = [pc EXCEPT ![p] =
                            IF req[p].route = "deposit" THEN "route_failed" ELSE "done"]
               /\ UNCHANGED accounts
          ELSE /\ accounts' = [accounts EXCEPT ![t.account_id] =
                                  RevertedBalances(accounts[t.account_id], t)]
               /\ pc' = [pc EXCEPT ![p] = "revert_mark"]
               /\ UNCHANGED req
    /\ UNCHANGED <<transactions, collateral, nreq, last, new_accounts>>

\* mark_transaction_failed(transaction_id, "Reverted due to Crossmint failure")
RevertMark(p) ==
    /\ pc[p] = "revert_mark"
    /\ transactions' = SetFailed(transactions, req[p].tx)
    /\ req' = [req EXCEPT ![p].outcome = "reverted"]
    /\ pc' = [pc EXCEPT ![p] =
                 IF req[p].route = "deposit" THEN "route_failed" ELSE "done"]
    /\ UNCHANGED <<accounts, collateral, nreq, last, new_accounts>>

\* ------------------------------------------------ extend_loan, after create

\* AccountDB.get_account_by_id and the new loan balance
ExtendRead(p) ==
    /\ pc[p] = "x_read"
    /\ LET a == accounts[req[p].account_id]
       IN req' = [req EXCEPT ![p].lb_b = a.loan_balance,
                             ![p].lb_a = a.loan_balance + req[p].amount,
                             ![p].ib_b = a.investment_balance,
                             ![p].ib_a = a.investment_balance]
    /\ pc' = [pc EXCEPT ![p] = "x_acct"]
    /\ UNCHANGED <<accounts, transactions, collateral, nreq, last, new_accounts>>

\* AccountDB.update_account_balances, directly
ExtendUpdateAccount(p) ==
    /\ pc[p] = "x_acct"
    /\ accounts' = SetBalances(accounts, req[p].account_id, req[p].lb_a, req[p].ib_a)
    /\ pc' = [pc EXCEPT ![p] = "x_snap"]
    /\ UNCHANGED <<transactions, collateral, req, nreq, last, new_accounts>>

\* TransactionDB.update_transaction_balances
ExtendRecordBalances(p) ==
    /\ pc[p] = "x_snap"
    /\ transactions' = SetSnapshot(transactions, req[p].tx,
                                   req[p].lb_b, req[p].lb_a, req[p].ib_b, req[p].ib_a)
    /\ pc' = [pc EXCEPT ![p] = "x_complete"]
    /\ UNCHANGED <<accounts, collateral, req, nreq, last, new_accounts>>

\* TransactionDB.mark_transaction_completed
ExtendMarkCompleted(p) ==
    /\ pc[p] = "x_complete"
    /\ transactions' = SetCompleted(transactions, req[p].tx)
    /\ pc' = [pc EXCEPT ![p] = "x_col"]
    /\ UNCHANGED <<accounts, collateral, req, nreq, last, new_accounts>>

\* CollateralDB.update_loan_amount with the loan_amount read at the start
ExtendUpdateLoanAmount(p) ==
    /\ pc[p] = "x_col"
    /\ collateral' = [collateral EXCEPT !.loan_amount = req[p].col_loan + req[p].amount]
    /\ req' = [req EXCEPT ![p].outcome = "ok"]
    /\ pc' = [pc EXCEPT ![p] = "done"]
    /\ UNCHANGED <<accounts, transactions, nreq, last, new_accounts>>

\* -------------------------------------------- Collateral Loan Lifecycle

\* approve_collateral writing the collateral before it checks the limit
approve_collateral_write_first(p) ==
    \E amt \in Amounts :
        IF collateral.status # "pending"
        THEN RejectRequest(p, "approve", AccountOfUser(CollateralOwner), CollateralOwner,
                           amt, "not_pending")
        ELSE IF amt > collateral.loan_limit
        THEN /\ MayStart(p)
             /\ collateral' = [collateral EXCEPT !.status = "approved", !.loan_amount = amt]
             /\ req' = [req EXCEPT ![p] = [IdleReq EXCEPT !.route = "approve",
                                             !.user_id = CollateralOwner, !.amount = amt,
                                             !.outcome = "limit_exceeded"]]
             /\ pc' = [pc EXCEPT ![p] = "done"]
             /\ UNCHANGED <<accounts, transactions, nreq, last, new_accounts>>
        ELSE /\ MayStart(p)
             /\ req' = [req EXCEPT ![p] = [IdleReq EXCEPT !.route = "approve",
                                             !.user_id = CollateralOwner, !.amount = amt,
                                             !.col_loan = collateral.loan_amount]]
             /\ pc' = [pc EXCEPT ![p] = "ap_update"]
             /\ UNCHANGED <<accounts, transactions, collateral, nreq, last, new_accounts>>

\* get_collateral_by_id in the route and again in CollateralDB.approve_collateral,
\* then the status and limit checks; a failed check raises, HTTP 500
approve_collateral(p) ==
    \E amt \in Amounts :
        IF collateral.status # "pending"
        THEN RejectRequest(p, "approve", AccountOfUser(CollateralOwner), CollateralOwner,
                           amt, "not_pending")
        ELSE IF amt > collateral.loan_limit
        THEN RejectRequest(p, "approve", AccountOfUser(CollateralOwner), CollateralOwner,
                           amt, "limit_exceeded")
        ELSE /\ MayStart(p)
             /\ req' = [req EXCEPT ![p] = [IdleReq EXCEPT !.route = "approve",
                                             !.user_id = CollateralOwner, !.amount = amt,
                                             !.col_loan = collateral.loan_amount]]
             /\ pc' = [pc EXCEPT ![p] = "ap_update"]
             /\ UNCHANGED <<accounts, transactions, collateral, nreq, last, new_accounts>>

\* UPDATE collaterals SET status = 'approved', loan_amount = the requested amount
ApproveUpdate(p) ==
    /\ pc[p] = "ap_update"
    /\ collateral' = [collateral EXCEPT !.status = "approved",
                                        !.loan_amount = req[p].amount]
    /\ pc' = [pc EXCEPT ![p] = "ap_create"]
    /\ UNCHANGED <<accounts, transactions, req, nreq, last, new_accounts>>

\* get_account_by_user_id and TransactionDB.create_transaction of the
\* loan_disbursement, after which approve_collateral returns the collateral
ApproveCreate(p) ==
    /\ pc[p] = "ap_create"
    /\ transactions' = Append(transactions,
          NewTransaction(AccountOfUser(req[p].user_id), req[p].user_id,
                         LOAN_DISBURSEMENT, req[p].amount, LoanRef))
    /\ req' = [req EXCEPT ![p].account_id = AccountOfUser(req[p].user_id),
                          ![p].tx = Len(transactions) + 1,
                          ![p].cur = Len(transactions) + 1,
                          ![p].outcome = "ok"]
    /\ pc' = [pc EXCEPT ![p] = "done"]
    /\ UNCHANGED <<accounts, collateral, nreq, last, new_accounts>>

\* the fields of a CollateralUpdate that reach the UPDATE statement: a field
\* left out of the request, or given as None, keeps the stored value
Updated(old, value) == IF value = NULL THEN old ELSE value

\* PUT /collaterals/{id}: CollateralDB.update_collateral writes every field given
update_collateral(p) ==
    /\ MayStart(p)
    /\ \E st \in CollateralStatus \cup {"unset"},
          la \in Amounts \cup {NULL}, ll \in Amounts \cup {NULL},
          dd \in DueDates \cup {NULL} :
          collateral' = [status |-> IF st = "unset" THEN collateral.status ELSE st,
                         loan_amount |-> Updated(collateral.loan_amount, la),
                         loan_limit |-> Updated(collateral.loan_limit, ll),
                         due_date |-> Updated(collateral.due_date, dd)]
    /\ req' = [req EXCEPT ![p] = [IdleReq EXCEPT !.route = "update_collateral",
                                    !.col_loan = collateral.loan_amount,
                                    !.outcome = "ok"]]
    /\ pc' = [pc EXCEPT ![p] = "done"]
    /\ UNCHANGED <<accounts, transactions, nreq, last, new_accounts>>

\* ----------------------------------------------------------- Account Store

\* AccountDB.get_account_by_user_id finds a row: one of the accounts that
\* exist at start, or one that create_account has inserted
HasAccount(u) ==
    \/ \E a \in Accounts : AccountOfUser(u) = a /\ u \in Users
    \/ \E i \in 1..Len(new_accounts) : new_accounts[i] = u

\* POST /accounts: the route's own get_account_by_user_id check, HTTP 400
create_account(p) ==
    /\ MayStart(p)
    /\ \E u \in AccountUsers :
          /\ req' = [req EXCEPT ![p] = [IdleReq EXCEPT !.route = "create_account",
                                          !.user_id = u,
                                          !.outcome = IF HasAccount(u) THEN "already_exists"
                                                      ELSE "none"]]
          /\ pc' = [pc EXCEPT ![p] = IF HasAccount(u) THEN "done" ELSE "ca_check"]
    /\ UNCHANGED <<accounts, transactions, collateral, nreq, last, new_accounts>>

\* AccountDB.create_account: the existence check, on a connection of its own
CreateCheck(p) ==
    /\ pc[p] = "ca_check"
    /\ IF HasAccount(req[p].user_id)
       THEN /\ req' = [req EXCEPT ![p].outcome = "already_exists"]
            /\ pc' = [pc EXCEPT ![p] = "done"]
       ELSE /\ pc' = [pc EXCEPT ![p] = "ca_insert"]
            /\ UNCHANGED req
    /\ UNCHANGED <<accounts, transactions, collateral, nreq, last, new_accounts>>

\* AccountDB.create_account: a fresh id and account number, the INSERT, and
\* the fetch of the row just written
CreateInsert(p) ==
    /\ pc[p] = "ca_insert"
    /\ new_accounts' = Append(new_accounts, req[p].user_id)
    /\ req' = [req EXCEPT ![p].outcome = "ok"]
    /\ pc' = [pc EXCEPT ![p] = "done"]
    /\ UNCHANGED <<accounts, transactions, collateral, nreq, last>>

\* AccountDB.update_account_balances called with the arguments args: each
\* argument given is written, an argument left None keeps the stored value
update_account_balances(p) ==
    /\ MayStart(p)
    /\ \E a \in Accounts, given \in SUBSET BalanceFields, lb \in BalanceInputs,
          ib \in BalanceInputs :
          /\ accounts' = [accounts EXCEPT ![a] =
                [loan_balance |-> IF "loan_balance" \in given THEN lb
                                  ELSE accounts[a].loan_balance,
                 investment_balance |-> IF "investment_balance" \in given THEN ib
                                        ELSE accounts[a].investment_balance]]
          /\ req' = [req EXCEPT ![p] = [IdleReq EXCEPT !.route = "update_account_balances",
                        !.account_id = a,
                        !.args = {<<f, IF f = "loan_balance" THEN lb ELSE ib>> : f \in given},
                        !.outcome = "ok"]]
    /\ pc' = [pc EXCEPT ![p] = "done"]
    /\ UNCHANGED <<transactions, collateral, nreq, last, new_accounts>>

\* a direct call returns to its caller, which may then make the next call
Return(p) ==
    /\ pc[p] = "done"
    /\ req[p].route \in {"svc_process", "svc_revert"}
    /\ pc' = [pc EXCEPT ![p] = "idle"]
    /\ req' = [req EXCEPT ![p] = IdleReq]
    /\ last' = [op |-> req[p].route, tx |-> req[p].tx]
    /\ UNCHANGED <<accounts, transactions, collateral, nreq, new_accounts>>

\* a route has sent its response; the worker takes the next request
Respond(p) ==
    /\ pc[p] = "done"
    /\ req[p].route \in {"deposit", "withdrawal", "payment", "create_loan"}
    /\ nreq < MaxCalls
    /\ pc' = [pc EXCEPT ![p] = "idle"]
    /\ req' = [req EXCEPT ![p] = IdleReq]
    /\ nreq' = nreq + 1
    /\ last' = [op |-> req[p].route, tx |-> req[p].tx]
    /\ UNCHANGED <<accounts, transactions, collateral, new_accounts>>

\* ------------------------------------- direct calls of the Balance Service

\* TransactionDB.create_transaction by a caller other than the routes
svc_create(p) ==
    /\ pc[p] = "idle"
    /\ Len(transactions) < MaxSvcTx
    /\ nreq = 0
    /\ \E a \in Accounts, ttype \in TransactionType, amt \in Amounts :
          LET u == IF a = OrgAccount THEN ORG ELSE "user_001"
          IN transactions' = Append(transactions, NewTransaction(a, u, ttype, amt, NoRef))
    /\ last' = NoCall
    /\ UNCHANGED <<accounts, collateral, pc, req, nreq, new_accounts>>

\* BalanceService.process_transaction_balances(t)
svc_process(p) ==
    /\ pc[p] = "idle"
    /\ nreq < MaxCalls
    /\ \E t \in TxIds :
          req' = [req EXCEPT ![p] = [IdleReq EXCEPT !.route = "svc_process",
                                       !.tx = t, !.cur = t, !.depth = 1]]
    /\ nreq' = nreq + 1
    /\ pc' = [pc EXCEPT ![p] = "calc"]
    /\ UNCHANGED <<accounts, transactions, collateral, last, new_accounts>>

\* BalanceService.revert_transaction_balances(t)
svc_revert(p) ==
    /\ pc[p] = "idle"
    /\ nreq < MaxCalls
    /\ \E t \in TxIds :
          req' = [req EXCEPT ![p] = [IdleReq EXCEPT !.route = "svc_revert",
                                       !.tx = t, !.cur = t, !.depth = 1]]
    /\ nreq' = nreq + 1
    /\ pc' = [pc EXCEPT ![p] = "revert"]
    /\ UNCHANGED <<accounts, transactions, collateral, last, new_accounts>>

\* ------------------------------------------------------- specifications

\* concurrent requests through the routes, one request per worker
Next ==
    \E p \in Procs :
        \/ deposit_money(p)
        \/ withdraw_money(p)
        \/ pay_loan(p)
        \/ create_loan(p)
        \/ extend_loan(p)
        \/ Calculate(p)
        \/ RecordBalances(p)
        \/ UpdateAccount(p)
        \/ MarkCompleted(p)
        \/ CreateOpposite(p)
        \/ MirrorFailed(p)
        \/ RouteMarkFailed(p)
        \/ Gateway(p)
        \/ Revert(p)
        \/ RevertMark(p)
        \/ ExtendRead(p)
        \/ ExtendUpdateAccount(p)
        \/ ExtendRecordBalances(p)
        \/ ExtendMarkCompleted(p)
        \/ ExtendUpdateLoanAmount(p)

Spec == Init /\ [][Next]_vars

\* one caller using the Balance Service directly, one call at a time
NextSvc ==
    \E p \in {"r1"} :
        \/ svc_create(p)
        \/ svc_process(p)
        \/ svc_revert(p)
        \/ Calculate(p)
        \/ RecordBalances(p)
        \/ UpdateAccount(p)
        \/ MarkCompleted(p)
        \/ CreateOpposite(p)
        \/ MirrorFailed(p)
        \/ Revert(p)
        \/ RevertMark(p)
        \/ Return(p)

SpecSvc == Init /\ [][NextSvc]_vars

\* the collateral as the valuation left it: pending, nothing lent yet beyond
\* the valued amount
InitCol ==
    /\ accounts = InitialAccounts
    /\ transactions = <<>>
    /\ collateral = [status |-> "pending", loan_amount |-> ColLimit,
                     loan_limit |-> ColLimit, due_date |-> DueDate]
    /\ pc = [p \in Procs |-> "idle"]
    /\ req = [p \in Procs |-> IdleReq]
    /\ nreq = 0
    /\ last = NoCall
    /\ new_accounts = <<>>

\* concurrent requests on one collateral, one request per worker
NextCol ==
    \E p \in Procs :
        \/ approve_collateral(p)
        \/ ApproveUpdate(p)
        \/ ApproveCreate(p)
        \/ update_collateral(p)
        \/ extend_loan(p)
        \/ ExtendRead(p)
        \/ ExtendUpdateAccount(p)
        \/ ExtendRecordBalances(p)
        \/ ExtendMarkCompleted(p)
        \/ ExtendUpdateLoanAmount(p)

SpecCol == InitCol /\ [][NextCol]_vars

\* concurrent requests on the Account Store, one request per worker
NextAcct ==
    \E p \in Procs :
        \/ create_account(p)
        \/ CreateCheck(p)
        \/ CreateInsert(p)
        \/ update_account_balances(p)

SpecAcct == Init /\ [][NextAcct]_vars

\* the Balance Calculator about to be called for one pending transaction of
\* any type, amount and principal on an account with any balances
InitCalc ==
    /\ \E a \in Accounts, lb \in 0..MaxBalance, ib \in 0..MaxBalance :
          accounts = SetBalances(InitialAccounts, a, lb, ib)
    /\ \E a \in Accounts, u \in Users, ttype \in TransactionType, amt \in Amounts :
          transactions = <<NewTransaction(a, u, ttype, amt, NoRef)>>
    /\ collateral = [status |-> "approved", loan_amount |-> ColLimit,
                     loan_limit |-> ColLimit, due_date |-> DueDate]
    /\ pc = [p \in Procs |-> IF p = "r1" THEN "calc" ELSE "idle"]
    /\ req = [p \in Procs |-> IF p = "r1"
                                THEN [IdleReq EXCEPT !.route = "svc_process",
                                                     !.tx = 1, !.cur = 1, !.depth = 1]
                                ELSE IdleReq]
    /\ nreq = 1
    /\ last = NoCall
    /\ new_accounts = <<>>

NextCalc == Calculate("r1")

SpecCalc == InitCalc /\ [][NextCalc]_vars

\* one worker serving deposits one after the other, and an operator who
\* runs the revert of a transaction again
NextRetry ==
    \E p \in {"r1"} :
        \/ deposit_money(p)
        \/ Calculate(p)
        \/ RecordBalances(p)
        \/ UpdateAccount(p)
        \/ MarkCompleted(p)
        \/ CreateOpposite(p)
        \/ RouteMarkFailed(p)
        \/ Gateway(p)
        \/ Revert(p)
        \/ RevertMark(p)
        \/ Respond(p)
        \/ svc_revert(p)
        \/ Return(p)

SpecRetry == Init /\ [][NextRetry]_vars

\* the Balance Service on an accounts table that holds a second user's row,
\* which no transaction of the run belongs to
OtherAccount == "user_account_002"

InitFrame ==
    /\ accounts = [a \in Accounts \cup {OtherAccount} |->
                      IF a \in Accounts
                      THEN InitialAccounts[a]
                      ELSE [loan_balance |-> InitLoan, investment_balance |-> InitInv]]
    /\ transactions = <<>>
    /\ collateral = [status |-> "approved", loan_amount |-> ColLimit,
                     loan_limit |-> ColLimit, due_date |-> DueDate]
    /\ pc = [p \in Procs |-> "idle"]
    /\ req = [p \in Procs |-> IdleReq]
    /\ nreq = 0
    /\ last = NoCall
    /\ new_accounts = <<>>

SpecFrame == InitFrame /\ [][NextSvc]_vars

\* ------------------------------------------------------------ properties

Quiescent == \A p \in Procs : pc[p] \in {"idle", "done"}

Finished(t) == \E p \in Procs : pc[p] = "done" /\ req[p].tx = t

HasSnapshot(t) == /\ t.loan_balance_before # NULL
                  /\ t.invested_balance_before # NULL

\* C1: every account's loan_balance and investment_balance are >= 0 after any
\* interleaving of deposit, withdrawal, payment, create-loan, extend-loan,
\* mirror processing and revert steps.
NonNegativeBalances ==
    \A a \in Accounts :
        accounts[a].loan_balance >= 0 /\ accounts[a].investment_balance >= 0

\* a withdrawal that emptied the user's investment balance has completed
NonNegativeWitness ==
    \E p \in Procs :
        /\ pc[p] = "done"
        /\ req[p].route = "withdrawal"
        /\ req[p].account_id # OrgAccount
        /\ transactions[req[p].tx].status = "completed"
        /\ accounts[req[p].account_id].investment_balance = 0

\* C2: the organization account's loan_balance is zero in every reachable
\* state, also for requests naming the organization account and an ordinary user.
OrgLoanBalanceZero == accounts[OrgAccount].loan_balance = 0

\* the rule table of the Balance Calculator: the change a completed
\* transaction of this type, amount and principal makes to each field
RuleLoanDelta(t) ==
    CASE t.transaction_type = LOAN_DISBURSEMENT -> t.amount
      [] t.transaction_type = PAYMENT /\ t.user_id # ORG -> 0 - t.amount
      [] OTHER -> 0

RuleInvestmentDelta(t) ==
    CASE t.transaction_type \in {DEPOSIT, INTEREST} -> t.amount
      [] t.transaction_type \in {WITHDRAWAL, FEE} -> 0 - t.amount
      [] t.transaction_type = PAYMENT /\ t.user_id = ORG -> 0 - t.amount
      [] OTHER -> 0

\* C3: every completed transaction's snapshot obeys after = before +
\* signed_delta(type, amount) on the field its type affects, and the other
\* field's before equals its after (the organization's loan balance, which the
\* rule table forces to zero, excepted); fee transactions of extend-loan included.
CompletedSnapshotRule ==
    \A i \in TxIds :
        LET t == transactions[i]
        IN t.status = "completed" =>
              /\ t.loan_balance_after =
                    IF t.user_id = ORG THEN 0 ELSE t.loan_balance_before + RuleLoanDelta(t)
              /\ t.invested_balance_after = t.invested_balance_before + RuleInvestmentDelta(t)

MirrorsOf(i) ==
    {m \in TxIds : transactions[m].user_id = ORG /\ transactions[m].reference_number = i}

\* C4: once the request that completed it has returned, every completed
\* transaction of a mirrored type whose owner is not the organization has
\* exactly one organization transaction referencing it, of the same amount.
ExactlyOneMirror ==
    \A i \in TxIds :
        LET t == transactions[i]
        IN (/\ t.user_id # ORG
            /\ t.transaction_type \in MirroredTypes
            /\ t.status = "completed"
            /\ Finished(i))
           => /\ Cardinality(MirrorsOf(i)) = 1
              /\ \A m \in MirrorsOf(i) : transactions[m].amount = t.amount

\* what one call of process_transaction_balances, run alone, makes of the
\* accounts: the transaction's own account, then the organization mirror
ProcessAlone(accts, a, u, ttype, amt) ==
    LET c == CalcBalances(accts[a], ttype, amt, u)
        own == SetBalances(accts, a, c.lb_a, c.ib_a)
        m == CalcBalances(own[OrgAccount], OppositeType(ttype), amt, ORG)
    IN IF ~c.ok THEN accts
       ELSE IF ~NeedsMirror([transaction_type |-> ttype, user_id |-> u]) THEN own
       ELSE IF ~m.ok THEN own
       ELSE SetBalances(own, OrgAccount, m.lb_a, m.ib_a)

\* what request r, run alone from the accounts accts, makes of them
RequestAlone(accts, r) ==
    LET a == r.account_id
        u == r.user_id
        amt == r.amount
    IN CASE r.route = "deposit" ->
              IF r.gw = "error"
              THEN SetBalances(ProcessAlone(accts, a, u, DEPOSIT, amt), a,
                               accts[a].loan_balance, accts[a].investment_balance)
              ELSE ProcessAlone(accts, a, u, DEPOSIT, amt)
         [] r.route = "withdrawal" -> ProcessAlone(accts, a, u, WITHDRAWAL, amt)
         [] r.route = "payment" -> ProcessAlone(accts, a, u, PAYMENT, amt)
         [] r.route = "create_loan" ->
              IF amt > collateral.loan_limit \/ accts[OrgAccount].investment_balance < amt
              THEN accts
              ELSE ProcessAlone(accts, a, u, LOAN_DISBURSEMENT, amt)
         [] r.route = "extend_loan" ->
              IF collateral.status # "approved" THEN accts
              ELSE SetBalances(accts, a, accts[a].loan_balance + amt,
                               accts[a].investment_balance)
         [] OTHER -> accts

\* C5: no lost update: when the requests have returned, the balances are those
\* that running the same requests one after the other, in one of the two
\* orders, produces.
NoLostUpdate ==
    Quiescent =>
        \/ accounts = RequestAlone(RequestAlone(InitialAccounts, req["r1"]), req["r2"])
        \/ accounts = RequestAlone(RequestAlone(InitialAccounts, req["r2"]), req["r1"])

\* C6: when the Settlement Gateway reported an error for a request, the
\* request ends with its transaction failed and, nothing else running, the
\* account back at the transaction's before-values.
GatewayErrorReverted ==
    \A p \in Procs :
        (pc[p] = "done" /\ req[p].gw = "error") =>
            LET t == transactions[req[p].tx]
            IN /\ t.status = "failed"
               /\ (\A q \in Procs \ {p} : pc[q] = "idle") =>
                     /\ accounts[t.account_id].loan_balance = t.loan_balance_before
                     /\ accounts[t.account_id].investment_balance = t.invested_balance_before

SecondRevert(p) ==
    /\ req[p].route = "svc_revert"
    /\ pc[p] \in {"revert", "revert_mark", "done"}
    /\ last = [op |-> "svc_revert", tx |-> req[p].tx]

\* C7: revert_transaction_balances is idempotent: a second call directly after
\* a first one on the same transaction changes no balance and no status.
RevertIdempotent ==
    [][\A p \in Procs :
          SecondRevert(p) =>
              /\ accounts' = accounts
              /\ \A i \in TxIds : transactions'[i].status = transactions[i].status]_vars

\* the second of two successive reverts of a transaction that had moved a
\* balance has run to its end
RevertIdempotentWitness ==
    \E p \in Procs :
        /\ SecondRevert(p)
        /\ pc[p] = "done"
        /\ req[p].outcome = "reverted"
        /\ LET t == transactions[req[p].tx]
           IN \/ t.loan_balance_after # t.loan_balance_before
              \/ t.invested_balance_after # t.invested_balance_before

\* the account already holds what the processing of transaction i wrote
AccountWrittenFor(i) ==
    \E p \in Procs : req[p].cur = i /\ pc[p] \in {"complete", "x_snap", "x_complete"}

\* C8: no state has the account already holding a transaction's
\* after-balances while that transaction is still pending.
NoPartialState ==
    \A i \in TxIds : transactions[i].status = "pending" => ~AccountWrittenFor(i)

LegalTransitions ==
    {<<"pending", "completed">>, <<"pending", "failed">>, <<"completed", "reversed">>}

\* C10: a transaction's status only changes pending -> completed,
\* pending -> failed or completed -> reversed.
LegalStatusChange ==
    [][\A i \in TxIds :
          transactions'[i].status # transactions[i].status =>
              <<transactions[i].status, transactions'[i].status>> \in LegalTransitions]_vars

\* ------------------------------------------------ collateral properties

Alone(p) == \A q \in Procs \ {p} : pc[q] = "idle"

\* C11: a successful approve leaves the collateral approved with the requested
\* loan_amount and its loan_disbursement transaction completed, the owner's
\* loan_balance raised by the amount.
ApproveDisburses ==
    \A p \in Procs :
        (pc[p] = "done" /\ req[p].route = "approve" /\ req[p].outcome = "ok" /\ Alone(p)) =>
            /\ collateral.status = "approved"
            /\ collateral.loan_amount = req[p].amount
            /\ transactions[req[p].tx].transaction_type = LOAN_DISBURSEMENT
            /\ transactions[req[p].tx].amount = req[p].amount
            /\ transactions[req[p].tx].status = "completed"
            /\ accounts[req[p].account_id].loan_balance =
                  InitialAccounts[req[p].account_id].loan_balance + req[p].amount

ApproveStarts(p) == pc[p] = "idle" /\ pc'[p] # "idle" /\ req'[p].route = "approve"

\* C12: approve on a collateral that is not pending, or for more than its
\* loan_limit, fails and leaves the collateral, the balances and the
\* transactions as they were.
ApproveRejectedUnchanged ==
    [][\A p \in Procs :
          (ApproveStarts(p) /\ (collateral.status # "pending"
                                \/ req'[p].amount > collateral.loan_limit)) =>
              /\ pc'[p] = "done"
              /\ req'[p].outcome \in {"not_pending", "limit_exceeded"}
              /\ collateral' = collateral
              /\ accounts' = accounts
              /\ transactions' = transactions]_vars

\* an approve above the limit was turned down and left the collateral pending,
\* so that the next approve, within the limit, went through
ApproveRejectedWitness ==
    \E p, q \in Procs :
        /\ pc[p] = "done" /\ req[p].route = "approve" /\ req[p].outcome = "limit_exceeded"
        /\ pc[q] = "done" /\ req[q].route = "approve" /\ req[q].outcome = "ok"

\* C13: an approved collateral's loan_amount never exceeds its loan_limit,
\* after extend-loan and after updates of the collateral too.
LoanWithinLimit ==
    collateral.status = "approved" => collateral.loan_amount <= collateral.loan_limit

\* C16: the step that ends a successful extend-loan has emitted a completed
\* fee transaction of the fee, adds exactly the fee to the collateral's
\* loan_amount and moves its due_date later.
ExtendEffect ==
    [][\A p \in Procs :
          (pc[p] = "x_col" /\ pc'[p] = "done" /\ req'[p].outcome = "ok") =>
              /\ transactions[req[p].tx].transaction_type = FEE
              /\ transactions[req[p].tx].amount = req[p].amount
              /\ collateral'.loan_amount = collateral.loan_amount + req[p].amount
              /\ collateral'.due_date > collateral.due_date]_vars

ExtendStarts(p) == pc[p] = "idle" /\ pc'[p] # "idle" /\ req'[p].route = "extend_loan"

\* C17: extend-loan on a collateral that is not approved is rejected: it
\* creates no transaction and leaves the collateral (loan_amount and due_date
\* included) and every balance unchanged.
ExtendRejectedUnchanged ==
    [][\A p \in Procs :
          (ExtendStarts(p) /\ collateral.status # "approved") =>
              /\ pc'[p] = "done"
              /\ req'[p].outcome = "not_approved"
              /\ req'[p].tx = 0
              /\ transactions' = transactions
              /\ collateral' = collateral
              /\ accounts' = accounts]_vars

\* an extend-loan was turned down on a collateral that is not approved
ExtendRejectedWitness ==
    \E p \in Procs :
        /\ pc[p] = "done"
        /\ req[p].route = "extend_loan"
        /\ req[p].outcome = "not_approved"
        /\ collateral.status # "approved"
        /\ transactions = <<>>

LegalCollateralMoves ==
    {<<"pending", "approved">>, <<"pending", "rejected">>,
     <<"approved", "released">>, <<"approved", "defaulted">>}

\* C18: a collateral's status only moves pending -> approved,
\* pending -> rejected, approved -> released or approved -> defaulted.
CollateralStatusMoves ==
    [][collateral'.status # collateral.status =>
          <<collateral.status, collateral'.status>> \in LegalCollateralMoves]_vars

\* ------------------------------------------------ failure-path properties

\* C14: revert_transaction_balances on a transaction without a recorded
\* before-snapshot raises, and changes no balance and no transaction status.
MissingSnapshotRaises ==
    [][\A p \in Procs :
          (pc[p] = "revert" /\ pc'[p] # "revert"
             /\ ~HasSnapshot(transactions[req[p].tx])) =>
              /\ req'[p].outcome = "no_snapshot"
              /\ pc'[p] # "revert_mark"
              /\ accounts' = accounts
              /\ transactions' = transactions]_vars

\* a direct revert of a transaction that was never processed has raised
MissingSnapshotWitness ==
    \E p \in Procs :
        /\ pc[p] = "done"
        /\ req[p].route = "svc_revert"
        /\ req[p].outcome = "no_snapshot"
        /\ transactions[req[p].tx].status = "pending"

ReturnedError(p) ==
    /\ pc[p] = "done"
    /\ req[p].tx # 0
    /\ req[p].outcome \in {"rejected", "reverted", "no_snapshot"}

\* C15: when an operation that created a transaction has returned an error,
\* that transaction and every mirror created for it are failed or reversed.
FailureEndsFailed ==
    \A p \in Procs :
        ReturnedError(p) =>
            \A i \in {req[p].tx} \cup MirrorsOf(req[p].tx) :
                transactions[i].status \in {"failed", "reversed"}

\* ------------------------------------------------ Account Store properties

AccountsOf(u) ==
    Cardinality({a \in Accounts : AccountOfUser(u) = a /\ u \in Users})
      + Cardinality({i \in 1..Len(new_accounts) : new_accounts[i] = u})

\* C19: at most one account exists per user_id in every reachable state,
\* concurrent create_account requests for the same user included.
OneAccountPerUser == \A u \in Users \cup AccountUsers : AccountsOf(u) <= 1

UpdateStarts(p) ==
    pc[p] = "idle" /\ pc'[p] # "idle" /\ req'[p].route = "update_account_balances"

\* C20: update_account_balances called with a loan_balance or an
\* investment_balance below zero is rejected and leaves the stored balances
\* unchanged.
NegativeUpdateRejected ==
    [][\A p \in Procs :
          (UpdateStarts(p) /\ \E x \in req'[p].args : x[2] < 0) =>
              /\ req'[p].outcome # "ok"
              /\ accounts' = accounts]_vars

\* ------------------------------------------------ revert and processing

RevertStep(p) == pc[p] = "revert" /\ pc'[p] = "revert_mark"

\* C21: reverting a transaction whose status is already failed is a no-op:
\* the balances are left as they were before the call, also when other
\* transactions on the account have completed since the first revert.
RevertOfFailedNoOp ==
    [][\A p \in Procs :
          (RevertStep(p) /\ transactions[req[p].tx].status = "failed") =>
              accounts' = accounts]_vars

\* the opposite-type mapping as the design states it
MirrorTypeFor(ttype) ==
    CASE ttype = DEPOSIT -> DEPOSIT
      [] ttype = WITHDRAWAL -> WITHDRAWAL
      [] ttype = LOAN_DISBURSEMENT -> WITHDRAWAL
      [] ttype = PAYMENT -> DEPOSIT
      [] ttype = FEE -> INTEREST

\* C22: the mirror created for a user transaction is a row on the
\* organization account, owned by the organization, referencing the original
\* transaction's id, of the same amount and of the mapped type.
MirrorFields ==
    [][\A p \in Procs :
          (pc[p] = "mirror_create" /\ pc'[p] # "mirror_create") =>
              LET o == transactions[req[p].cur]
                  m == transactions'[Len(transactions')]
              IN /\ Len(transactions') = Len(transactions) + 1
                 /\ m.account_id = OrgAccount
                 /\ m.user_id = ORG
                 /\ m.reference_number = req[p].cur
                 /\ m.amount = o.amount
                 /\ m.transaction_type = MirrorTypeFor(o.transaction_type)]_vars

\* a loan_disbursement or a fee has its completed mirror, a withdrawal or an
\* interest transaction of the organization
MirrorFieldsWitness ==
    \E i, m \in TxIds :
        /\ transactions[m].reference_number = i
        /\ transactions[m].user_id = ORG
        /\ transactions[i].transaction_type \in {LOAN_DISBURSEMENT, FEE}
        /\ transactions[m].transaction_type \in {WITHDRAWAL, INTEREST}
        /\ transactions[m].status = "completed"

\* ------------------------------------------------ Balance Calculator

\* whether the rule table lets a transaction through on these balances
RuleAccepts(t, lb, ib) ==
    CASE t.transaction_type \in {DEPOSIT, INTEREST} -> TRUE
      [] t.transaction_type \in {WITHDRAWAL, FEE} -> ib >= t.amount
      [] t.transaction_type = PAYMENT ->
            IF t.user_id = ORG THEN ib >= t.amount ELSE lb >= t.amount
      [] t.transaction_type = LOAN_DISBURSEMENT -> t.user_id # ORG

\* C23: for every type, amount, principal and balances,
\* calculate_balances_for_transaction succeeds exactly when the rule table
\* lets the transaction through and then returns the table's before and
\* after values, loan_after = 0 for the organization.
CalculatorTable ==
    \A p \in Procs :
        (req[p].route = "svc_process" /\ pc[p] \in {"snap", "done"}) =>
            LET t == transactions[req[p].tx]
                lb == accounts[t.account_id].loan_balance
                ib == accounts[t.account_id].investment_balance
            IN IF RuleAccepts(t, lb, ib)
               THEN /\ pc[p] = "snap"
                    /\ req[p].lb_b = lb
                    /\ req[p].ib_b = ib
                    /\ req[p].lb_a = IF t.user_id = ORG THEN 0 ELSE lb + RuleLoanDelta(t)
                    /\ req[p].ib_a = ib + RuleInvestmentDelta(t)
               ELSE pc[p] = "done" /\ req[p].outcome = "rejected"

\* the calculator has let an organization payment through on an account that
\* carried a loan balance, and returned loan_after = 0
CalculatorWitness ==
    \E p \in Procs :
        /\ pc[p] = "snap"
        /\ transactions[req[p].tx].transaction_type = PAYMENT
        /\ transactions[req[p].tx].user_id = ORG
        /\ req[p].lb_b > 0
        /\ req[p].lb_a = 0
        /\ req[p].ib_a = req[p].ib_b - transactions[req[p].tx].amount

\* C24: mirroring terminates: processing an organization-owned transaction
\* creates no transaction, so one call of process_transaction_balances creates
\* at most one further transaction and never goes deeper than two.
MirroringTerminates ==
    /\ [](\A p \in Procs : req[p].depth <= 2)
    /\ [][\A p \in Procs :
             /\ (pc[p] = "mirror_create" /\ pc'[p] # "mirror_create") =>
                    /\ req[p].depth = 1
                    /\ transactions[req[p].cur].user_id # ORG
             /\ (pc[p] \in {"calc", "snap", "acct", "complete"}
                   /\ transactions[req[p].cur].user_id = ORG) =>
                    /\ Len(transactions') = Len(transactions)
                    /\ pc'[p] # "mirror_create"]_vars

\* a call on a user transaction has processed its mirror, the only row it
\* created, and returned
MirroringWitness ==
    \E p \in Procs :
        /\ pc[p] = "done"
        /\ req[p].route = "svc_process"
        /\ req[p].depth = 2
        /\ transactions[req[p].cur].user_id = ORG
        /\ transactions[req[p].cur].status = "completed"
        /\ Len(transactions) = 2

SnapshotOf(t) ==
    <<t.loan_balance_before, t.loan_balance_after,
      t.invested_balance_before, t.invested_balance_after>>

InFlight(i) == \E p \in Procs : pc[p] \notin {"idle", "done"} /\ req[p].cur = i

\* C25: a transaction's four snapshot fields are null while it is pending
\* (the call that is processing it aside) and, once set, are changed by no
\* later operation.
SnapshotWrittenOnce ==
    /\ [](\A i \in TxIds :
             (transactions[i].status = "pending" /\ ~InFlight(i)) =>
                 SnapshotOf(transactions[i]) = <<NULL, NULL, NULL, NULL>>)
    /\ [][\A i \in TxIds :
             SnapshotOf(transactions[i]) # <<NULL, NULL, NULL, NULL>> =>
                 SnapshotOf(transactions'[i]) = SnapshotOf(transactions[i])]_vars

ProcessedAgain(p) ==
    /\ req[p].route = "svc_process"
    /\ req[p].depth = 1
    /\ pc[p] \in {"calc", "snap", "acct"}
    /\ transactions[req[p].tx].status \in {"completed", "failed"}

\* C26: process_transaction_balances called on a transaction that is already
\* completed or failed changes no balance, creates no transaction and leaves
\* the transaction's status as it is.
ProcessOnlyPending ==
    [][\A p \in Procs :
          ProcessedAgain(p) =>
              /\ accounts' = accounts
              /\ Len(transactions') = Len(transactions)
              /\ transactions'[req[p].tx].status = transactions[req[p].tx].status]_vars

\* transaction i was applied to t's account right after t and nothing has
\* touched the account since
CompletedInWindow(i, t) ==
    LET u == transactions[i]
    IN /\ u.account_id = t.account_id
       /\ u.status = "completed"
       /\ u.loan_balance_before = t.loan_balance_after
       /\ u.invested_balance_before = t.invested_balance_after
       /\ accounts[t.account_id].loan_balance = u.loan_balance_after
       /\ accounts[t.account_id].investment_balance = u.invested_balance_after

\* C27: when transaction T is reverted after another transaction on the same
\* account completed in the settlement window, the account keeps that other
\* transaction's effect: the revert takes off T's delta and nothing else.
RevertUndoesOnlyT ==
    [][\A p \in Procs :
          (pc[p] = "revert" /\ pc'[p] = "revert_mark") =>
              LET t == transactions[req[p].tx]
                  a == t.account_id
              IN (\E i \in TxIds \ {req[p].tx} : CompletedInWindow(i, t)) =>
                     /\ accounts'[a].loan_balance =
                            accounts[a].loan_balance
                              - (t.loan_balance_after - t.loan_balance_before)
                     /\ accounts'[a].investment_balance =
                            accounts[a].investment_balance
                              - (t.invested_balance_after - t.invested_balance_before)]_vars

\* C28: with no request in flight, no completed organization mirror
\* references a failed user transaction, and after a single request whose
\* user transaction was reverted the organization's investment balance is
\* what it was before the request.
OrgLedgerConsistent ==
    Quiescent =>
        /\ \A m \in TxIds :
              (/\ transactions[m].user_id = ORG
               /\ transactions[m].reference_number \in TxIds
               /\ transactions[m].status = "completed")
              => transactions[transactions[m].reference_number].status # "failed"
        /\ \A p \in Procs :
              (/\ Alone(p)
               /\ pc[p] = "done"
               /\ req[p].outcome = "reverted"
               /\ transactions[req[p].tx].user_id # ORG
               /\ transactions[req[p].tx].account_id # OrgAccount)
              => accounts[OrgAccount].investment_balance =
                     InitialAccounts[OrgAccount].investment_balance

\* the amount request r's completed disbursement lent to a user
Disbursed(r) ==
    IF /\ r.route = "create_loan"
       /\ r.tx # 0
       /\ transactions[r.tx].status = "completed"
       /\ transactions[r.tx].user_id # ORG
    THEN transactions[r.tx].amount
    ELSE 0

OnlyUserLoans ==
    \A p \in Procs :
        \/ req[p].route = "none"
        \/ req[p].route = "create_loan" /\ req[p].account_id # OrgAccount
                                        /\ req[p].user_id # ORG

\* C29: when the only requests were create-loan requests of users and all of
\* them have returned, the completed disbursements add up to no more than the
\* organization's investment balance went down.
DisbursedWithinFund ==
    (Quiescent /\ OnlyUserLoans) =>
        Disbursed(req["r1"]) + Disbursed(req["r2"])
            <= InitialAccounts[OrgAccount].investment_balance
                 - accounts[OrgAccount].investment_balance

\* C30: a call of the Balance Service on a transaction of account A changes
\* no account row other than A's and the organization's, and a revert
\* changes no row other than A's.
FrameEffect ==
    [][\A p \in Procs :
          pc[p] \notin {"idle", "done"} =>
              LET a == transactions[req[p].tx].account_id
              IN \A b \in DOMAIN accounts :
                    accounts'[b] # accounts[b] =>
                        \/ b = a
                        \/ b = OrgAccount /\ req[p].route # "svc_revert"]_vars

\* a user's transaction has been processed and mirrored: the user's row and
\* the organization's row have changed; the other user's row has not
FrameWitness ==
    \E p \in Procs :
        /\ pc[p] = "done"
        /\ req[p].route = "svc_process"
        /\ transactions[req[p].tx].user_id # ORG
        /\ transactions[req[p].tx].status = "completed"
        /\ \E m \in MirrorsOf(req[p].tx) : transactions[m].status = "completed"
        /\ accounts[transactions[req[p].tx].account_id]
              # InitialAccounts[transactions[req[p].tx].account_id]
        /\ accounts[OrgAccount] # InitialAccounts[OrgAccount]
        /\ accounts[OtherAccount] = [loan_balance |-> InitLoan,
                                     investment_balance |-> InitInv]
====
